---- MODULE Spec2Model ----
(***************************************************************************)
(* Model of src/server.ts: the "search-code" tool handler (the paginated   *)
(* aggregation loop over GET /search/code) and the session-aware transport *)
(* map of the Streamable HTTP endpoint.                                    *)
(*                                                                         *)
(* The handler is an async function: everything between two awaits runs    *)
(* atomically on the event loop, so one action is one such stretch of      *)
(* code.  Items are opaque; `collected` holds collected.length.            *)
(***************************************************************************)
EXTENDS Integers, FiniteSets, Sequences, TLC

\* ---------------------------------------------------------------- bounds
MaxAvail == 6          \* small upstreams hold 0..MaxAvail matching items
MaxPerPageArg == 3     \* per_page arguments 0..MaxPerPageArg (plus the schema edge)
MaxItemsArg == 4       \* max_items arguments 0..MaxItemsArg (plus the schema edge)
MaxPagesArg == 2       \* max_pages arguments 0..MaxPagesArg
MaxStartPage == 2      \* page arguments 0..MaxStartPage
MaxIds == 3            \* session ids randomUUID can draw (and callers can present)
MaxTransports == 3     \* transport instances created in one behaviour

\* ------------------------------------------------------ program constants
PER_PAGE_MAX == 25         \* z.number().int().min(1).max(25)
PER_PAGE_DEFAULT == 100    \* per_page = 100
PAGE_DEFAULT == 1          \* page = 1
MAX_ITEMS_MAX == 100       \* z.number().int().min(1).max(100)
MAX_ITEMS_DEFAULT == 1000  \* max_items = 1000
ABS_CEILING == 1000        \* collected.length >= 1000
Absent == -1               \* an optional field that the caller left out (undefined)
NoTransport == 0           \* transports[sid] of an id the map does not hold (undefined)

VARIABLES
  args,          \* the tool arguments as received (before inputSchema.parse)
  avail,         \* number of items the upstream holds for the query
  pc,            \* "start" | "await" | "done" | "failed" | "rejected"
  per_page, max_items, max_pages,   \* the destructured, defaulted arguments
  current, fetchedPages, total, incomplete, collected,   \* the loop's locals
  result,        \* the value the handler returned (NoResult while none)
  \* -- history of the run, read only by the properties
  fetches,       \* number of octokit.request calls issued
  reqSizes,      \* the per_page values those calls carried
  firstPageTotal,\* total_count reported by the first fetched page
  lastTotal,     \* total_count reported by the latest fetched page
  pageFlags,     \* the incomplete_results values the fetched pages reported
  lastLink,      \* whether the latest page carried a rel="next" link
  linkHonest,    \* every link so far matched the upstream's real page count
  threw,         \* an octokit.request call of this run has thrown
  lastReqPage,   \* the page number the latest octokit.request call asked for
  outstanding,   \* octokit.request calls issued and not yet settled
  \* -- the session-aware transport map
  transports,    \* session id -> transport instance (NoTransport: no entry)
  nextTid,       \* transport instances constructed so far (they are 1..nextTid)
  sessionOf,     \* transport instance -> its sessionId (Absent until initialized)
  connected,     \* the instances handed to server.connect
  issued,        \* the ids randomUUID has returned
  lastCall,      \* the latest inbound call: method, session header, message kind
  ret,           \* the transport that call's lookup yielded (NoTransport: none)
  status,        \* how that call was answered: "" (none yet) | "ok" | "400"
  attached,      \* the instances whose server.connect promise has resolved
  closed,        \* the instances whose session was closed (onsessionclosed ran)
  \* -- the tool call a session has in flight
  runSid,        \* the session whose POST carried the search-code call (Absent: none)
  runConn,       \* that POST's connection: "" (none) | "open" | "closed"
  sendOutcome    \* the write of the call's response: "" (none yet) | "sent" | "send failed"

aggVars == <<args, avail, pc, per_page, max_items, max_pages, current,
             fetchedPages, total, incomplete, collected, result, fetches,
             reqSizes, firstPageTotal, lastTotal, pageFlags, lastLink,
             linkHonest, threw, lastReqPage, outstanding>>

regVars == <<transports, nextTid, sessionOf, connected, issued, lastCall, ret,
             status, attached, closed>>

runVars == <<runSid, runConn, sendOutcome>>

vars == <<aggVars, regVars, runVars>>

\* ------------------------------------------------------------ inputSchema
PerPageArgs == {Absent} \cup (0..MaxPerPageArg)
                 \cup ((PER_PAGE_MAX - 1)..(PER_PAGE_MAX + 1))
MaxItemsArgs == {Absent} \cup (0..MaxItemsArg)
                 \cup (MAX_ITEMS_MAX..(MAX_ITEMS_MAX + 1))
MaxPagesArgs == {Absent} \cup (0..MaxPagesArg)
PageArgs == {Absent} \cup (0..MaxStartPage)
QueryArgs == {"", "repo:o/r"}

ArgSpace == [q : QueryArgs, per_page : PerPageArgs, page : PageArgs,
             max_items : MaxItemsArgs, max_pages : MaxPagesArgs]

\* one small family of upstreams and one that holds more than the ceiling
AvailSpace == (0..MaxAvail) \cup {ABS_CEILING + MaxAvail}

\* z.number().int().min(lo).max(hi).optional()
OptInRange(v, lo, hi) == v = Absent \/ (lo <= v /\ v <= hi)
\* z.number().int().min(lo).optional()
OptAtLeast(v, lo) == v = Absent \/ lo <= v

\* inputSchema.parse(args) does not throw
Accepts(a) ==
  /\ Len(a.q) >= 1
  /\ OptInRange(a.per_page, 1, PER_PAGE_MAX)
  /\ OptAtLeast(a.page, 1)
  /\ OptInRange(a.max_items, 1, MAX_ITEMS_MAX)
  /\ OptAtLeast(a.max_pages, 1)

\* a destructuring default: `name = d`
Default(v, d) == IF v = Absent THEN d ELSE v

\* --------------------------------------------------------------- upstream
\* items a paged source holding n items returns for page p of size s
PageItems(n, s, p) ==
  LET rest == n - (p - 1) * s
  IN  IF rest <= 0 THEN 0 ELSE IF rest >= s THEN s ELSE rest

\* whether that source has a page after p
HasNext(n, s, p) == p * s < n

\* total_count values a page may report (the count is not stable across pages)
TotalCounts(n) == {n, n + 1}

\* ------------------------------------------------------- the paging loop
NoResult == [ok |-> FALSE, total |-> 0, incomplete |-> FALSE, items |-> 0,
             pages |-> 0]

\* the loop without its page bound
PageBoundOff(maxPages, fp) == FALSE

\* line 59: if (max_pages && fetchedPages >= max_pages) break;
PageBoundHit(maxPages, fp) == maxPages # Absent /\ maxPages # 0 /\ fp >= maxPages

\* total overwritten by every page
CaptureTotalEveryPage(fp, tot, pageTotal) == pageTotal

\* line 65: if (fetchedPages === 0) total = data.total_count;
CaptureTotal(fp, tot, pageTotal) == IF fp = 0 THEN pageTotal ELSE tot

\* plain assignment instead of ||=
AssignFlag(flag, pageFlag) == pageFlag

\* line 66: incomplete ||= data.incomplete_results ?? false;
StickyOr(flag, pageFlag) == flag \/ pageFlag

\* the loop without its empty-page exit
EmptyPageIgnored(n) == FALSE

\* line 70: if (!data.items.length) break;
EmptyPage(n) == n = 0

\* the loop without its max_items exit
CapIgnored(len, maxItems) == FALSE

\* the max_items exit taken one item late
CapReachedLate(len, maxItems) == len > maxItems

\* line 71: if (collected.length >= max_items) break;
CapReached(len, maxItems) == len >= maxItems

\* line 72: if (collected.length >= 1000) { collected.length = 1000; break; }
CeilingReached(len) == len >= ABS_CEILING

\* the loop without its link exit
NoNextIgnored(link) == FALSE

\* line 76: if (!next) break;
NoNext(link) == ~link

\* the page number left where it was
AdvanceStuck(cur) == cur

\* line 77: current += 1;
Advance(cur) == cur + 1

\* lines 80-97: the returned content (summary line, JSON payload)
Return(tot, inc, len, fp) ==
  [ok |-> TRUE, total |-> tot, incomplete |-> inc, items |-> len, pages |-> fp]

\* ------------------------------------------------- the transport map
Ids == 1..MaxIds
Tids == 1..MaxTransports
Headers == Ids \cup {Absent}      \* req.headers["mcp-session-id"]
NoCall == [method |-> "", sid |-> Absent, init |-> FALSE]

\* line 129: sessionId && transports[sessionId]
Known(map, sessionId) == sessionId # Absent /\ map[sessionId] # NoTransport

\* the map reset to the one new entry
RegisterAlone(map, sid, t) == [i \in Ids |-> IF i = sid THEN t ELSE NoTransport]

\* line 134: onsessioninitialized: sid => { transports[sid] = transport; }
Register(map, sid, t) == [map EXCEPT ![sid] = t]

\* a close callback that deletes nothing (as in newTransport, lines 116-121)
UnregisterNothing(map, sid) == map

\* a close callback that empties the map
UnregisterAll(map, sid) == [i \in Ids |-> NoTransport]

\* line 135: onsessionclosed: sid => { delete transports[sid]; }
Unregister(map, sid) == [map EXCEPT ![sid] = NoTransport]

\* the transport remembered as soon as it is constructed
RegistersAtCreation(isInit, inited) == ~inited

\* lines 132-134: the map is written by onsessioninitialized only, which the
\* transport calls when an initialize message reaches it without a session
Registers(isInit, inited) == isInit /\ ~inited

\* one transport kept and handed to every call that names no known session
ensureTransportShared(sessionId) ==
  IF Known(transports, sessionId)
  THEN [transport |-> transports[sessionId], created |-> FALSE]
  ELSE IF nextTid > 0
       THEN [transport |-> nextTid, created |-> FALSE]
       ELSE [transport |-> 1, created |-> TRUE]

\* the lookup of line 129 left out: every call gets a new transport
ensureTransportAlwaysNew(sessionId) ==
  [transport |-> nextTid + 1, created |-> TRUE]

\* lines 128-139: the transport for a call, and whether it was newly constructed
\* (and handed to server.connect) to provide it
ensureTransport(sessionId) ==
  IF Known(transports, sessionId)
  THEN [transport |-> transports[sessionId], created |-> FALSE]
  ELSE [transport |-> nextTid + 1, created |-> TRUE]

Init ==
  /\ args \in ArgSpace
  /\ avail \in AvailSpace
  /\ pc = "start"
  /\ per_page = 0 /\ max_items = 0 /\ max_pages = Absent
  /\ current = 0 /\ fetchedPages = 0 /\ total = 0
  /\ incomplete = FALSE /\ collected = 0
  /\ result = NoResult
  /\ fetches = 0 /\ reqSizes = {}
  /\ firstPageTotal = 0 /\ lastTotal = 0 /\ pageFlags = {}
  /\ lastLink = FALSE /\ linkHonest = TRUE /\ threw = FALSE
  /\ lastReqPage = 0 /\ outstanding = 0
  /\ transports = [i \in Ids |-> NoTransport]
  /\ nextTid = 0
  /\ sessionOf = [t \in Tids |-> Absent]
  /\ connected = {}
  /\ issued = {}
  /\ lastCall = NoCall
  /\ ret = NoTransport
  /\ status = ""
  /\ attached = {}
  /\ closed = {}
  /\ runSid = Absent
  /\ runConn = ""
  /\ sendOutcome = ""

\* lines 40-63: the handler from its call to the first await.  parse throws on
\* arguments the schema refuses; otherwise the locals are set up and, the page
\* bound being unreached at fetchedPages = 0, the first request is issued.
Start ==
  /\ pc = "start"
  /\ IF ~Accepts(args)
     THEN /\ pc' = "rejected"
          /\ UNCHANGED <<per_page, max_items, max_pages, current, fetches,
                         reqSizes, result, lastReqPage, outstanding>>
     ELSE LET pp == Default(args.per_page, PER_PAGE_DEFAULT)
              mp == args.max_pages
          IN  /\ per_page' = pp
              /\ max_items' = Default(args.max_items, MAX_ITEMS_DEFAULT)
              /\ max_pages' = mp
              /\ current' = Default(args.page, PAGE_DEFAULT)
              /\ IF PageBoundHit(mp, 0)
                 THEN /\ pc' = "done"
                      /\ result' = Return(0, FALSE, 0, 0)
                      /\ UNCHANGED <<fetches, reqSizes, lastReqPage,
                                     outstanding>>
                 ELSE /\ pc' = "await"
                      /\ fetches' = fetches + 1
                      /\ reqSizes' = reqSizes \cup {pp}
                      /\ lastReqPage' = Default(args.page, PAGE_DEFAULT)
                      /\ outstanding' = outstanding + 1
                      /\ UNCHANGED result
  /\ UNCHANGED <<args, avail, fetchedPages, total, incomplete, collected,
                 firstPageTotal, lastTotal, pageFlags, lastLink, linkHonest,
                 threw>>

\* the handler called on its own, outside any session
Invoke ==
  /\ Start
  /\ UNCHANGED <<regVars, runVars>>

\* lines 65-78 and back to 59-63 (or on to 80-97): the awaited request returns
\* a page; the page is folded in, the break conditions are tried in order, and
\* the loop either returns the result or issues the request for the next page.
FetchReturn ==
  /\ pc = "await"
  /\ \E link \in BOOLEAN, tc \in TotalCounts(avail), inc \in BOOLEAN :
       LET n    == PageItems(avail, per_page, current)
           tot1 == CaptureTotal(fetchedPages, total, tc)
           inc1 == StickyOr(incomplete, inc)
           len1 == collected + n
           fp1  == fetchedPages + 1
           trunc == ~EmptyPage(n) /\ ~CapReached(len1, max_items)
                      /\ CeilingReached(len1)
           len2 == IF trunc THEN ABS_CEILING ELSE len1
           brk  == EmptyPage(n) \/ CapReached(len1, max_items)
                     \/ CeilingReached(len1) \/ NoNext(link)
           cur1 == IF brk THEN current ELSE Advance(current)
           stop == brk \/ PageBoundHit(max_pages, fp1)
       IN  /\ total' = tot1
           /\ incomplete' = inc1
           /\ collected' = len2
           /\ fetchedPages' = fp1
           /\ current' = cur1
           /\ firstPageTotal' = IF fetchedPages = 0 THEN tc ELSE firstPageTotal
           /\ lastTotal' = tc
           /\ pageFlags' = pageFlags \cup {inc}
           /\ lastLink' = link
           /\ linkHonest' = (linkHonest /\ (link = HasNext(avail, per_page, current)))
           /\ IF stop
              THEN /\ pc' = "done"
                   /\ result' = Return(tot1, inc1, len2, fp1)
                   /\ outstanding' = outstanding - 1
                   /\ UNCHANGED <<fetches, reqSizes, lastReqPage>>
              ELSE /\ pc' = "await"
                   /\ fetches' = fetches + 1
                   /\ reqSizes' = reqSizes \cup {per_page}
                   /\ lastReqPage' = cur1
                   /\ outstanding' = outstanding
                   /\ UNCHANGED result
  /\ UNCHANGED <<args, avail, per_page, max_items, max_pages, threw>>
  /\ UNCHANGED <<regVars, runVars>>

\* the rejection caught and the pages collected so far returned
FetchThrowPartial ==
  /\ pc = "await"
  /\ pc' = "done"
  /\ threw' = TRUE
  /\ result' = Return(total, incomplete, collected, fetchedPages)
  /\ outstanding' = outstanding - 1
  /\ UNCHANGED <<args, avail, per_page, max_items, max_pages, current,
                 fetchedPages, total, incomplete, collected, fetches,
                 reqSizes, firstPageTotal, lastTotal, pageFlags, lastLink,
                 linkHonest, lastReqPage>>
  /\ UNCHANGED <<regVars, runVars>>

\* line 61: the awaited request rejects; nothing in the handler catches it, so
\* the handler's promise rejects and no content is returned.
FetchThrow ==
  /\ pc = "await"
  /\ pc' = "failed"
  /\ threw' = TRUE
  /\ outstanding' = outstanding - 1
  /\ UNCHANGED <<args, avail, per_page, max_items, max_pages, current,
                 fetchedPages, total, incomplete, collected, result, fetches,
                 reqSizes, firstPageTotal, lastTotal, pageFlags, lastLink,
                 linkHonest, lastReqPage>>
  /\ UNCHANGED <<regVars, runVars>>

Next == Invoke \/ FetchReturn \/ FetchThrow

Spec == Init /\ [][Next]_vars

\* ------------------------------------------------ the /mcp route handlers
\* transport.handleRequest for a POST or a GET, on the transport t the lookup
\* yielded.  An initialize message on a transport without a session makes the
\* transport draw an id (sessionIdGenerator, line 133) and call
\* onsessioninitialized (line 134); any other message needs an initialized
\* transport, and an initialize message an uninitialized one.
Handle(method, sid, isInit) ==
  LET r == ensureTransport(sid)
      t == r.transport
      inited == ~r.created /\ sessionOf[t] # Absent
  IN  /\ r.created => nextTid < MaxTransports
      /\ lastCall' = [method |-> method, sid |-> sid, init |-> isInit]
      /\ ret' = t
      /\ nextTid' = IF r.created THEN nextTid + 1 ELSE nextTid
      /\ connected' = IF r.created THEN connected \cup {t} ELSE connected
      /\ IF Registers(isInit, inited)
         THEN \E id \in Ids \ issued :
                /\ issued' = issued \cup {id}
                /\ sessionOf' = [sessionOf EXCEPT ![t] = id]
                /\ transports' = Register(transports, id, t)
                /\ status' = IF isInit THEN "ok" ELSE "400"
         ELSE /\ status' = IF inited /\ ~isInit THEN "ok" ELSE "400"
              /\ UNCHANGED <<issued, sessionOf, transports>>
      /\ UNCHANGED <<attached, closed>>

\* lines 141-145: app.post("/mcp")
Post == \E sid \in Headers, isInit \in BOOLEAN :
  /\ Handle("POST", sid, isInit)
  /\ UNCHANGED <<aggVars, runVars>>

\* lines 147-152: app.get("/mcp"), the first GET route registered; it answers
\* every GET, so the handleSession route of line 161 is never reached
Get == \E sid \in Headers :
  /\ Handle("GET", sid, FALSE)
  /\ UNCHANGED <<aggVars, runVars>>

\* lines 154-162: handleSession behind app.delete("/mcp").  An unknown or absent
\* id is answered 400; for a known one the transport closes its session and
\* calls onsessionclosed (line 135), which deletes the entry.
Delete == \E sid \in Headers :
  /\ lastCall' = [method |-> "DELETE", sid |-> sid, init |-> FALSE]
  /\ IF Known(transports, sid)
     THEN /\ ret' = transports[sid]
          /\ transports' = Unregister(transports, sid)
          /\ closed' = closed \cup {transports[sid]}
          /\ status' = "ok"
     ELSE /\ ret' = NoTransport
          /\ status' = "400"
          /\ UNCHANGED <<transports, closed>>
  /\ UNCHANGED <<nextTid, sessionOf, connected, issued, attached>>
  /\ UNCHANGED <<aggVars, runVars>>

RegInit ==
  /\ Init
  /\ args = [q |-> "repo:o/r", per_page |-> Absent, page |-> Absent,
             max_items |-> Absent, max_pages |-> Absent]
  /\ avail = 0

RegNext == Post \/ Get \/ Delete

RegSpec == RegInit /\ [][RegNext]_vars

\* the await of line 61 settles: the request returns or throws
FairSpec == Spec /\ WF_vars(Next)

\* ------------------------------------------- a tool call inside a session
\* line 137: server.connect(transport) is not awaited; its promise resolves in
\* a later turn of the event loop
ConnectSettles == \E t \in connected \ attached :
  /\ attached' = attached \cup {t}
  /\ UNCHANGED <<transports, nextTid, sessionOf, connected, issued, lastCall,
                 ret, status, closed>>
  /\ UNCHANGED <<aggVars, runVars>>

\* lines 141-145 with lines 40-63: a POST of an established session carries a
\* search-code call; the transport hands it to the registered handler, which
\* runs to its first await
CallTool == \E sid \in Ids :
  /\ runSid = Absent
  /\ Known(transports, sid)
  /\ Handle("POST", sid, FALSE)
  /\ Start
  /\ runSid' = sid
  /\ runConn' = "open"
  /\ UNCHANGED sendOutcome

\* the close notification of the connection dropped and the map emptied of the
\* session
ConnCloseEvicts ==
  /\ runConn = "open" /\ pc = "await"
  /\ runConn' = "closed"
  /\ transports' = Unregister(transports, runSid)
  /\ UNCHANGED <<nextTid, sessionOf, connected, issued, lastCall, ret, status,
                 attached, closed>>
  /\ UNCHANGED <<aggVars, runSid, sendOutcome>>

\* lines 141-145, 58-78: the caller's connection goes away while the handler is
\* suspended at line 61; neither the route nor the loop listens for it
ConnClose ==
  /\ runConn = "open" /\ pc = "await"
  /\ runConn' = "closed"
  /\ UNCHANGED <<aggVars, regVars, runSid, sendOutcome>>

\* the handler has settled and the transport writes the response; the write
\* fails when the connection or the session is gone, and the failure stays
\* inside the transport
SendResponse ==
  /\ runSid # Absent /\ sendOutcome = ""
  /\ pc \in {"done", "failed", "rejected"}
  /\ sendOutcome' = IF runConn = "open" /\ Known(transports, runSid)
                    THEN "sent" ELSE "send failed"
  /\ UNCHANGED <<aggVars, regVars, runSid, runConn>>

\* lines 141-145: the POST that opens a session: an initialize message
\* without a session header
Handshake ==
  /\ Handle("POST", Absent, TRUE)
  /\ UNCHANGED <<aggVars, runVars>>

\* the one call the sessions of this specification make: a single page holds
\* all the caller asked for
SessArgs == [q |-> "repo:o/r", per_page |-> 1, page |-> Absent,
             max_items |-> 1, max_pages |-> Absent]

SessInit ==
  /\ Init
  /\ args = SessArgs
  /\ avail = 1

\* sessions are opened and closed while one of them runs a search
SessNext ==
  \/ Handshake \/ Delete
  \/ CallTool \/ FetchReturn \/ FetchThrow
  \/ ConnClose \/ SendResponse

SessSpec == SessInit /\ [][SessNext]_vars

\* the await of line 61 settles whatever happens to the connection
FairSessSpec == SessSpec /\ WF_vars(FetchReturn \/ FetchThrow)

\* the routes together with the connects they leave pending
AttachNext == Post \/ Get \/ Delete \/ ConnectSettles

AttachSpec == RegInit /\ [][AttachNext]_vars

\* ------------------------------------------------------------- properties
Min(a, b) == IF a <= b THEN a ELSE b
CeilDiv(a, b) == (a + b - 1) \div b

Running == pc \in {"await", "done", "failed"}
Terminated == pc \in {"done", "failed", "rejected"}

\* the page the run starts at, and what the upstream holds from there on
StartPage == Default(args.page, PAGE_DEFAULT)
AvailFromStart ==
  IF avail > (StartPage - 1) * per_page
  THEN avail - (StartPage - 1) * per_page ELSE 0

\* the upstream's page count P for the run's page size (page 1 always exists)
UpstreamPages == IF avail = 0 THEN 1 ELSE CeilDiv(avail, per_page)

\* min(P, max_pages), P alone when max_pages is omitted
FetchLimit ==
  IF max_pages = Absent THEN UpstreamPages ELSE Min(UpstreamPages, max_pages)

\* C1: the result of a run never holds more than min(max_items, 1000) items.
C1_ItemsWithinBound ==
  pc = "done" => result.items <= Min(max_items, ABS_CEILING)

WholePages ==
  LET byItems == CeilDiv(Min(max_items, ABS_CEILING), per_page)
  IN  IF max_pages = Absent THEN byItems ELSE Min(max_pages, byItems)

C3_FetchBound ==
  /\ [](Running => /\ linkHonest => fetches <= FetchLimit
                   /\ max_pages # Absent => fetches <= max_pages)
  /\ <>Terminated

C3_Witness ==
  /\ pc = "done"
  /\ max_pages # Absent /\ fetches = max_pages
  /\ lastLink /\ ~linkHonest
  /\ result.items > 0 /\ result.items < max_items

\* C4: a page that brings the accumulated count to max_items or past it ends
\* the run with no further fetch; 3 pages of 2, max_items 4, page size 2 gives
\* exactly 2 fetches and 4 items.
C4_StopAtMaxItems ==
  /\ [][(pc = "await" /\ fetchedPages' = fetchedPages + 1
           /\ collected' >= max_items)
          => (pc' = "done" /\ fetches' = fetches)]_vars
  /\ []((/\ pc = "done" /\ linkHonest
         /\ avail = 6 /\ per_page = 2 /\ max_items = 4
         /\ StartPage = 1 /\ max_pages = Absent)
          => (fetches = 2 /\ result.items = 4))

C4_Witness ==
  /\ pc = "done" /\ linkHonest /\ lastLink
  /\ avail = 6 /\ per_page = 2 /\ max_items = 4
  /\ StartPage = 1 /\ max_pages = Absent
  /\ fetches = 2 /\ result.items = 4

\* C5: the incomplete flag is sticky within a run: true from the first page
\* that reports it, in every later state and in the result; false in the
\* result only if every fetched page reported false.
C5_StickyIncomplete ==
  /\ [](TRUE \in pageFlags => incomplete)
  /\ [][incomplete => incomplete']_vars
  /\ [](pc = "done" => (result.incomplete <=> TRUE \in pageFlags))

C5_Witness ==
  /\ pc = "done" /\ fetchedPages >= 2
  /\ pageFlags = {TRUE, FALSE}
  /\ result.incomplete

\* C6: the total of the result is the total_count of the first fetched page,
\* whatever later pages report.
C6_TotalFromFirstPage ==
  pc = "done" => result.total = firstPageTotal

C6_Witness ==
  /\ pc = "done" /\ fetchedPages >= 2
  /\ lastTotal # firstPageTotal
  /\ result.total = firstPageTotal

\* C7: after a page fetch fails the run issues no further fetch and ends in
\* failure, returning no result.
C7_FailFast ==
  /\ [](threw => (pc = "failed" /\ result = NoResult))
  /\ [][threw => fetches' = fetches]_vars

C7_Witness ==
  /\ threw /\ pc = "failed"
  /\ fetchedPages >= 1 /\ collected > 0
  /\ result = NoResult

\* C8: an empty page ends the run at once, whatever the next-page signal; an
\* empty first page with total_count 0 and incomplete false gives 1 fetch, 0
\* items and incomplete false.
C8_EmptyPageEnds ==
  /\ [][(pc = "await" /\ pc' # "failed"
           /\ PageItems(avail, per_page, current) = 0)
          => (pc' = "done" /\ fetches' = fetches)]_vars
  /\ []((/\ Running /\ fetchedPages >= 1
         /\ PageItems(avail, per_page, StartPage) = 0
         /\ firstPageTotal = 0 /\ TRUE \notin pageFlags)
          => /\ pc = "done" /\ fetches = 1
             /\ result.items = 0 /\ ~result.incomplete)

C8_Witness ==
  /\ pc = "done" /\ avail = 0 /\ lastLink
  /\ firstPageTotal = 0 /\ pageFlags = {FALSE}
  /\ fetches = 1 /\ result.items = 0 /\ ~result.incomplete

\* C9: every fetch carries a page size between 1 and 25, the same for all the
\* fetches of a run.
C9_PageSizeInRange ==
  /\ \A s \in reqSizes : 1 <= s /\ s <= PER_PAGE_MAX
  /\ Cardinality(reqSizes) <= 1

\* C10: a POST or GET that presents a registered id gets the transport stored
\* under that id, and the lookup changes nothing: the map is as before and no
\* transport is constructed or connected.
C10_ResolveKnown ==
  [][(lastCall'.method \in {"POST", "GET"} /\ Known(transports, lastCall'.sid))
       => /\ ret' = transports[lastCall'.sid]
          /\ transports' = transports
          /\ nextTid' = nextTid
          /\ connected' = connected]_vars

C10_Witness ==
  /\ lastCall.method = "POST" /\ ~lastCall.init
  /\ Known(transports, lastCall.sid)
  /\ ret = transports[lastCall.sid]
  /\ status = "ok"
  /\ nextTid = 1

\* the ids whose session was closed, and the variables an inbound call writes
Released == {sessionOf[t] : t \in closed} \ {Absent}
callVars == <<transports, nextTid, sessionOf, connected, issued, lastCall, ret,
              status, closed>>
CallStep == callVars' # callVars
Registered == {i \in Ids : transports[i] # NoTransport}

C12_UnknownRejected ==
  [][(CallStep /\ ~lastCall'.init /\ ~Known(transports, lastCall'.sid))
       => /\ status' = "400"
          /\ transports' = transports
          /\ issued' = issued]_vars

C12_Witness ==
  /\ lastCall.method = "POST" /\ ~lastCall.init
  /\ lastCall.sid # Absent /\ ~Known(transports, lastCall.sid)
  /\ lastCall.sid \notin issued
  /\ status = "400"
  /\ Registered # {}

\* C13: a POST or GET that presents a released id is treated as one presenting
\* an unknown id: it gets a new transport, never the released one; without the
\* handshake it is answered 400 and the map stays as it was, with the handshake
\* a session is created under another id.
C13_ReleasedIsUnknown ==
  /\ [][(CallStep /\ lastCall'.method \in {"POST", "GET"}
           /\ lastCall'.sid \in Released)
          => /\ ret' \notin closed /\ ret' = nextTid + 1
             /\ ~lastCall'.init => (status' = "400" /\ transports' = transports)
             /\ lastCall'.init => /\ status' = "ok"
                                  /\ sessionOf'[ret'] # lastCall'.sid
                                  /\ transports'[lastCall'.sid] = NoTransport]_vars
  /\ [](Released \cap Registered = {})

C13_Witness ==
  /\ lastCall.method = "POST" /\ lastCall.init
  /\ lastCall.sid \in Released
  /\ status = "ok" /\ ret \notin closed
  /\ sessionOf[ret] # lastCall.sid /\ transports[sessionOf[ret]] = ret
  /\ transports[lastCall.sid] = NoTransport

\* C14: a DELETE removes the entry of the id it presents and no other; for an
\* id the map does not hold (never registered, or released before) it leaves
\* the map as it was and is answered 400.
C14_ReleaseIdempotent ==
  [][(CallStep /\ lastCall'.method = "DELETE")
       => /\ \A j \in Ids \ {lastCall'.sid} : transports'[j] = transports[j]
          /\ lastCall'.sid # Absent => transports'[lastCall'.sid] = NoTransport
          /\ Known(transports, lastCall'.sid) => status' = "ok"
          /\ ~Known(transports, lastCall'.sid)
               => (transports' = transports /\ status' = "400")]_vars

C14_Witness ==
  /\ lastCall.method = "DELETE"
  /\ lastCall.sid \in Released
  /\ status = "400"
  /\ Registered # {}

\* C15: the map holds an entry for exactly the ids that were issued and not
\* yet closed, and an entry leaves the map only in the DELETE of its id.
C15_EntryLifetime ==
  /\ [](Registered = issued \ Released)
  /\ [][\A i \in Ids :
          (transports[i] # NoTransport /\ transports'[i] = NoTransport)
            => (lastCall'.method = "DELETE" /\ lastCall'.sid = i)]_vars

C15_Witness ==
  /\ Released # {} /\ Registered # {}
  /\ Cardinality(issued) >= 2
  /\ lastCall.method = "DELETE" /\ status = "ok"

\* C16: a page without a next link ends the run with no further fetch, also
\* when the count says more results exist and neither bound is reached.
C16_StopWithoutLink ==
  [][(pc = "await" /\ pc' # "failed" /\ ~lastLink')
       => (pc' = "done" /\ fetches' = fetches)]_vars

C16_Witness ==
  /\ pc = "done" /\ ~lastLink /\ ~linkHonest
  /\ result.items > 0 /\ result.items < max_items
  /\ result.total > result.items
  /\ max_pages # Absent /\ fetchedPages < max_pages

\* C17: the pages requested are page, page+1, page+2, ... in this order, and a
\* request is issued only when no other request of the run is outstanding.
C17_PagesInOrder ==
  /\ [][fetches' # fetches
          => /\ fetches' = fetches + 1
             /\ lastReqPage' = IF fetches = 0 THEN StartPage
                                ELSE lastReqPage + 1
             /\ outstanding' = 1]_vars
  /\ [](outstanding \in {0, 1} /\ (outstanding = 1 <=> pc = "await"))

C17_Witness ==
  /\ pc = "done" /\ fetches >= 3
  /\ StartPage = 2
  /\ lastReqPage = StartPage + fetches - 1

\* C18: every transport handed to a request, and every transport found in the
\* map, has completed its server.connect.
C18_AttachedBeforeUse ==
  /\ \A i \in Registered : transports[i] \in attached
  /\ lastCall.method \in {"POST", "GET"} => ret \in attached

C20_NoOrphanTransport ==
  \A t \in connected : t \in closed \/ \E i \in Ids : transports[i] = t

====
